---- MODULE Spec2Model ----
(***************************************************************************)
(* A model of the w3w Go client (src/w3w.go): construction of a W3W client *)
(* with New, the four public calls Words, Position, LangsW3W and LangsPos, *)
(* and the request executor exec they share.                               *)
(*                                                                         *)
(* Go strings are sequences of one-character strings, so that trimming,    *)
(* joining, formatting and query escaping are computed character by        *)
(* character.  A Go pointer is a one-element sequence (<<>> is nil) or,    *)
(* for *Options, the name of the object it points to.                      *)
(***************************************************************************)
EXTENDS Integers, Sequences, FiniteSets, TLC

VARIABLES
    defs,         \* the package variable defs (src/w3w.go:21-23)
    heap,         \* the Options values the caller owns, by name
    w,            \* the *W3W returned by New: <<>> is nil
    newKey,       \* the apikey argument of the last call of New
    newDefaults,  \* the defaults argument of the last call of New
    newErr,       \* the error returned by the last call of New
    pc,           \* per caller: where its call stands
    op,           \* per caller: the public operation it called
    words,        \* per caller: the What3Words argument
    ll,           \* per caller: the LatLng argument, in halves of a degree
    opts,         \* per caller: the opts argument (a pointer)
    vals,         \* per caller: the url.Values of the call
    reqs,         \* per caller: the requests handed to client.Do, in order
    decodes,      \* per caller: how many times json Decode ran
    resp,         \* per caller: what client.Do answered
    ret           \* per caller: what the public operation gave its caller

vars == <<defs, heap, w, newKey, newDefaults, newErr,
          pc, op, words, ll, opts, vals, reqs, decodes, resp, ret>>

callVars == <<pc, op, words, ll, opts, vals, reqs, decodes, resp, ret>>
newVars == <<w, newKey, newDefaults, newErr>>

(***************************************************************************)
(* Bounds of the model.                                                    *)
(***************************************************************************)
MaxKeyLen == 2   \* longest API key handed to New in SpecNew
NumProcs == 2    \* concurrent callers of one client in SpecConc

(***************************************************************************)
(* Strings.                                                                *)
(***************************************************************************)
\* unicode.IsSpace restricted to the characters of the model's alphabet
IsSpace(c) == c \in {" ", "\t", "\n", "\r"}

RECURSIVE TrimLeft(_)
TrimLeft(s) ==
    IF s = <<>> THEN <<>>
    ELSE IF IsSpace(Head(s)) THEN TrimLeft(Tail(s)) ELSE s

RECURSIVE TrimRight(_)
TrimRight(s) ==
    IF s = <<>> THEN <<>>
    ELSE IF IsSpace(s[Len(s)]) THEN TrimRight(SubSeq(s, 1, Len(s) - 1)) ELSE s

\* strings.TrimSpace: all leading and trailing white space removed
TrimSpace(s) == TrimRight(TrimLeft(s))

RECURSIVE Join(_, _)
\* strings.Join(elems, sep)
Join(elems, sep) ==
    IF elems = <<>> THEN <<>>
    ELSE IF Len(elems) = 1 THEN elems[1]
    ELSE elems[1] \o sep \o Join(Tail(elems), sep)

(***************************************************************************)
(* Options and the package defaults.                                       *)
(***************************************************************************)
Options(lang, corners) == [Lang |-> lang, Corners |-> corners]

\* var defs = Options{"en", false}
defsInit == Options(<<"e", "n">>, FALSE)

ErrNoAPIKey == "No API Key specified"
NoErr == "nil"

\* Pointers to Options: "nil", "&defs" (the package variable) or the name of
\* a caller-owned value in heap.
Deref(ptr, hp, df) == IF ptr = "&defs" THEN df ELSE hp[ptr]

(***************************************************************************)
(* New.                                                                    *)
(***************************************************************************)
W3W(apikey, defaults) ==
    [apikey |-> apikey, client |-> "http.Client", defaults |-> defaults]

\* a slip New could make: only the literal empty key is refused
NewEmptyOnly(apikey, defaults) ==
    IF apikey = <<>>
    THEN [w |-> <<>>, err |-> ErrNoAPIKey]
    ELSE IF defaults = "nil"
         THEN [w |-> <<W3W(apikey, "&defs")>>, err |-> NoErr]
         ELSE [w |-> <<W3W(apikey, defaults)>>, err |-> NoErr]

\* func New(apikey string, defaults *Options) (*W3W, error)
New(apikey, defaults) ==
    IF apikey = <<>> \/ TrimSpace(apikey) = <<>>
    THEN [w |-> <<>>, err |-> ErrNoAPIKey]
    ELSE IF defaults = "nil"
         THEN [w |-> <<W3W(apikey, "&defs")>>, err |-> NoErr]
         ELSE [w |-> <<W3W(apikey, defaults)>>, err |-> NoErr]

(***************************************************************************)
(* url.Values, its encoding, and the formatting of a LatLng.               *)
(***************************************************************************)
\* the characters of the model, in ASCII order, each with its byte in hex
Ascii ==
    << <<"\t", "0", "9">>, <<"\n", "0", "A">>, <<"\r", "0", "D">>,
       <<" ", "2", "0">>, <<"%", "2", "5">>, <<"&", "2", "6">>,
       <<"+", "2", "B">>, <<",", "2", "C">>, <<"-", "2", "D">>,
       <<".", "2", "E">>, <<"0", "3", "0">>, <<"1", "3", "1">>,
       <<"2", "3", "2">>, <<"3", "3", "3">>, <<"4", "3", "4">>,
       <<"5", "3", "5">>, <<"6", "3", "6">>, <<"7", "3", "7">>,
       <<"8", "3", "8">>, <<"9", "3", "9">>, <<"=", "3", "D">>,
       <<"?", "3", "F">>, <<"a", "6", "1">>, <<"b", "6", "2">>,
       <<"c", "6", "3">>, <<"d", "6", "4">>, <<"e", "6", "5">>,
       <<"f", "6", "6">>, <<"g", "6", "7">>, <<"i", "6", "9">>,
       <<"k", "6", "B">>, <<"l", "6", "C">>, <<"n", "6", "E">>,
       <<"o", "6", "F">>, <<"p", "7", "0">>, <<"r", "7", "2">>,
       <<"s", "7", "3">>, <<"t", "7", "4">>, <<"u", "7", "5">>,
       <<"y", "7", "9">> >>

\* the position of a character in byte order
Ord(c) == CHOOSE i \in 1..Len(Ascii) : Ascii[i][1] = c

RECURSIVE StrLess(_, _)
\* Go's s < t on strings: byte-wise lexicographic order
StrLess(s, t) ==
    IF t = <<>> THEN FALSE
    ELSE IF s = <<>> THEN TRUE
    ELSE IF Head(s) = Head(t) THEN StrLess(Tail(s), Tail(t))
    ELSE Ord(Head(s)) < Ord(Head(t))

\* url.Values{}
EmptyValues == [k \in {} |-> <<>>]

\* func (v Values) Set(key, value string): the key's values become [value]
Set(v, key, value) ==
    [k \in DOMAIN v \cup {key} |-> IF k = key THEN <<value>> ELSE v[k]]

\* should the byte be escaped in a query component (net/url shouldEscape)
shouldEscape(c) ==
    ~ (c \in {"a", "b", "c", "d", "e", "f", "g", "i", "k", "l", "n", "o", "p",
              "r", "s", "t", "u", "y", "0", "1", "2", "3", "4", "5", "6",
              "7", "8", "9", "-", "."})

RECURSIVE QueryEscape(_)
\* url.QueryEscape: a space becomes "+", an escaped byte becomes %XX
QueryEscape(s) ==
    IF s = <<>> THEN <<>>
    ELSE LET c == Head(s)
             e == IF c = " " THEN <<"+">>
                  ELSE IF shouldEscape(c)
                       THEN <<"%", Ascii[Ord(c)][2], Ascii[Ord(c)][3]>>
                       ELSE <<c>>
         IN e \o QueryEscape(Tail(s))

RECURSIVE SortKeys(_)
\* the keys of a Values in sorted order (sort.Strings in Values.Encode)
SortKeys(ks) ==
    IF ks = {} THEN <<>>
    ELSE LET m == CHOOSE k \in ks : \A o \in ks : o = k \/ StrLess(k, o)
         IN <<m>> \o SortKeys(ks \ {m})

RECURSIVE EncodeKey(_, _, _)
\* the pairs key=value of one key, each preceded by "&" unless first
EncodeKey(k, vs, first) ==
    IF vs = <<>> THEN <<>>
    ELSE (IF first THEN <<>> ELSE <<"&">>)
         \o QueryEscape(k) \o <<"=">> \o QueryEscape(Head(vs))
         \o EncodeKey(k, Tail(vs), FALSE)

RECURSIVE EncodeFrom(_, _, _)
EncodeFrom(v, ks, first) ==
    IF ks = <<>> THEN <<>>
    ELSE LET part == EncodeKey(Head(ks), v[Head(ks)], first)
         IN part \o EncodeFrom(v, Tail(ks), first /\ part = <<>>)

\* func (v Values) Encode() string: "bar=baz&foo=quux", sorted by key
Encode(v) == EncodeFrom(v, SortKeys(DOMAIN v), TRUE)

\* the precision of the %.15f verbs
FracDigits == 15

RECURSIVE Digits(_)
\* the decimal digits of a natural number
Digits(n) ==
    IF n < 10 THEN <<Ascii[Ord("0") + n][1]>>
    ELSE Digits(n \div 10) \o <<Ascii[Ord("0") + (n % 10)][1]>>

\* fmt.Sprintf("%.15f", x) for x = h/2, a float64 that is a whole number of
\* halves: the sign, the integer part, the point and 15 fraction digits
FormatF(h) ==
    LET a == IF h < 0 THEN -h ELSE h
    IN (IF h < 0 THEN <<"-">> ELSE <<>>)
       \o Digits(a \div 2) \o <<".">>
       \o <<IF a % 2 = 1 THEN "5" ELSE "0">>
       \o [i \in 1..(FracDigits - 1) |-> "0"]

\* fmt.Sprintf("%.15f,%.15f", ll[0], ll[1])
FormatLatLng(p) == FormatF(p[1]) \o <<",">> \o FormatF(p[2])

(***************************************************************************)
(* Options.add and the option resolution of exec.                          *)
(***************************************************************************)
kKey == <<"k", "e", "y">>
kString == <<"s", "t", "r", "i", "n", "g">>
kPosition == <<"p", "o", "s", "i", "t", "i", "o", "n">>
kLang == <<"l", "a", "n", "g">>
kCorners == <<"c", "o", "r", "n", "e", "r", "s">>

\* a slip add could make: the flag is always sent, as "true" or "false"
addCornersAlways(o, v) ==
    LET v1 == IF o.Lang = <<>> THEN Set(v, kLang, <<"e", "n">>)
              ELSE Set(v, kLang, o.Lang)
    IN IF o.Corners THEN Set(v1, kCorners, <<"t", "r", "u", "e">>)
       ELSE Set(v1, kCorners, <<"f", "a", "l", "s", "e">>)

\* a slip add could make: an empty Lang sends no lang parameter
addNoLangDefault(o, v) ==
    LET v1 == IF o.Lang = <<>> THEN v ELSE Set(v, kLang, o.Lang)
    IN IF o.Corners THEN Set(v1, kCorners, <<"t", "r", "u", "e">>) ELSE v1

\* func (o *Options) add(v *url.Values): the Values after the call
add(o, v) ==
    LET v1 == IF o.Lang = <<>> THEN Set(v, kLang, <<"e", "n">>)
              ELSE Set(v, kLang, o.Lang)
    IN IF o.Corners THEN Set(v1, kCorners, <<"t", "r", "u", "e">>) ELSE v1

\* a slip exec could make: the defaults fill the fields opts leaves zero
execOptionsMerge(client, o, v, hp, df) ==
    IF o # "nil"
    THEN LET d == Deref(client.defaults, hp, df)
             x == Deref(o, hp, df)
         IN add(Options(IF x.Lang = <<>> THEN d.Lang ELSE x.Lang,
                        x.Corners \/ d.Corners), v)
    ELSE add(Deref(client.defaults, hp, df), v)

\* exec, lines 196-200: opts when it is not nil, else the client's defaults
execOptions(client, o, v, hp, df) ==
    IF o # "nil"
    THEN add(Deref(o, hp, df), v)
    ELSE add(Deref(client.defaults, hp, df), v)

endpoint == "https://api.what3words.com"

\* http.NewRequest("GET", url+"?"+vals.Encode(), nil) and the Accept header
\* added to it: the URL is kept as its part before "?" and its raw query
NewRequest(url, v) ==
    [Method |-> "GET", URL |-> url, RawQuery |-> Encode(v),
     Header |-> [Accept |-> <<"application/json">>]]

(***************************************************************************)
(* JSON documents and json.Decoder.Decode into *Position and *Languages.   *)
(* A response body is the JSON value it holds, or no JSON at all.          *)
(***************************************************************************)
JEmpty == [t |-> "empty"]        \* a body with no bytes
JInvalid == [t |-> "invalid"]    \* a body that is not JSON
JNull == [t |-> "null"]
JStr(s) == [t |-> "string", s |-> s]
JNum(n) == [t |-> "number", n |-> n]
JArr(a) == [t |-> "array", a |-> a]
JObj(o) == [t |-> "object", o |-> o]

TypeErr == "json.UnmarshalTypeError"
SyntaxErr == "json.SyntaxError"
EOFErr == "io.EOF"
TransportErr == "transport error"

\* the first error of a sequence of errors, nil when there is none
RECURSIVE FirstErr(_)
FirstErr(es) ==
    IF es = <<>> THEN NoErr
    ELSE IF Head(es) # NoErr THEN Head(es) ELSE FirstErr(Tail(es))

\* the value of an object's key, when the object has it
HasField(j, name) == name \in DOMAIN j.o

\* a field of a struct from the object j, dec being what decoding the key's
\* value gives: the field keeps cur when the object has no such key
Field(j, name, cur, dec) ==
    IF HasField(j, name) THEN dec ELSE [val |-> cur, err |-> NoErr]

\* a JSON value into a Go string: null leaves it alone
DecString(j, cur) ==
    IF j.t = "string" THEN [val |-> j.s, err |-> NoErr]
    ELSE IF j.t = "null" THEN [val |-> cur, err |-> NoErr]
    ELSE [val |-> cur, err |-> TypeErr]

\* a JSON value into a float64 (a whole number of halves)
DecFloat(j, cur) ==
    IF j.t = "number" THEN [val |-> j.n, err |-> NoErr]
    ELSE IF j.t = "null" THEN [val |-> cur, err |-> NoErr]
    ELSE [val |-> cur, err |-> TypeErr]

\* a JSON value into a Go array, r being what decoding gives element by
\* element: null leaves the array alone, a non-array is a type error
DecArray(j, cur, r) ==
    IF j.t = "array"
    THEN [val |-> [i \in DOMAIN r |-> r[i].val],
          err |-> FirstErr([i \in DOMAIN r |-> r[i].err])]
    ELSE IF j.t = "null" THEN [val |-> cur, err |-> NoErr]
    ELSE [val |-> cur, err |-> TypeErr]

\* type What3Words [3]string: elements beyond the JSON array become "",
\* JSON elements beyond the third are dropped
DecWhat3Words(j, cur) ==
    DecArray(j, cur,
             [i \in 1..3 |-> IF i <= Len(j.a) THEN DecString(j.a[i], cur[i])
                             ELSE [val |-> "", err |-> NoErr]])

\* type LatLng [2]float64
DecLatLng(j, cur) ==
    DecArray(j, cur,
             [i \in 1..2 |-> IF i <= Len(j.a) THEN DecFloat(j.a[i], cur[i])
                             ELSE [val |-> 0, err |-> NoErr]])

\* a JSON value into a pointer, r being what decoding it into the pointee
\* gives: null makes the pointer nil, anything else sets the pointee
DecPtr(j, r) ==
    IF j.t = "null" THEN [val |-> <<>>, err |-> NoErr]
    ELSE [val |-> <<r.val>>, err |-> r.err]

\* *LatLng: the pointee is allocated when the pointer is nil
DecLatLngPtr(j, cur) ==
    DecPtr(j, DecLatLng(j, IF cur = <<>> THEN <<0, 0>> ELSE cur[1]))

\* type BBox [2]*LatLng
DecBBox(j, cur) ==
    DecArray(j, cur,
             [i \in 1..2 |-> IF i <= Len(j.a) THEN DecLatLngPtr(j.a[i], cur[i])
                             ELSE [val |-> <<>>, err |-> NoErr]])

\* *BBox
DecBBoxPtr(j, cur) ==
    DecPtr(j, DecBBox(j, IF cur = <<>> THEN <<<<>>, <<>>>> ELSE cur[1]))

\* Position{}
ZeroPosition ==
    [Type |-> "", Words |-> <<"", "", "">>, Position |-> <<>>,
     Corners |-> <<>>, Language |-> ""]

\* a JSON value into a Position struct
DecPosition(j, cur) ==
    IF j.t = "object"
    THEN LET ty == Field(j, "type", cur.Type, DecString(j.o["type"], cur.Type))
             wo == Field(j, "words", cur.Words, DecWhat3Words(j.o["words"], cur.Words))
             po == Field(j, "position", cur.Position,
                         DecLatLngPtr(j.o["position"], cur.Position))
             co == Field(j, "corners", cur.Corners,
                         DecBBoxPtr(j.o["corners"], cur.Corners))
             la == Field(j, "language", cur.Language,
                         DecString(j.o["language"], cur.Language))
         IN [val |-> [Type |-> ty.val, Words |-> wo.val, Position |-> po.val,
                      Corners |-> co.val, Language |-> la.val],
             err |-> FirstErr(<<ty.err, wo.err, po.err, co.err, la.err>>)]
    ELSE IF j.t = "null" THEN [val |-> cur, err |-> NoErr]
    ELSE [val |-> cur, err |-> TypeErr]

ZeroLanguage == [Code |-> "", Name |-> ""]

\* a JSON value into a Language struct
DecLanguage(j, cur) ==
    IF j.t = "object"
    THEN LET c == Field(j, "code", cur.Code, DecString(j.o["code"], cur.Code))
             n == Field(j, "name_display", cur.Name,
                        DecString(j.o["name_display"], cur.Name))
         IN [val |-> [Code |-> c.val, Name |-> n.val],
             err |-> FirstErr(<<c.err, n.err>>)]
    ELSE IF j.t = "null" THEN [val |-> cur, err |-> NoErr]
    ELSE [val |-> cur, err |-> TypeErr]

\* Go slices: the nil slice and the slices with elements (possibly none)
NilSlice == [isNil |-> TRUE, elems |-> <<>>]
Slice(elems) == [isNil |-> FALSE, elems |-> elems]

\* a JSON value into a []Language: null makes the slice nil, an array
\* replaces its elements
DecLanguageSlice(j, cur) ==
    IF j.t = "array"
    THEN LET r == [i \in 1..Len(j.a) |-> DecLanguage(j.a[i], ZeroLanguage)]
         IN [val |-> Slice([i \in 1..Len(j.a) |-> r[i].val]),
             err |-> FirstErr([i \in 1..Len(j.a) |-> r[i].err])]
    ELSE IF j.t = "null" THEN [val |-> NilSlice, err |-> NoErr]
    ELSE [val |-> cur, err |-> TypeErr]

\* a JSON value into a Languages struct
DecLanguages(j, cur) ==
    IF j.t = "object"
    THEN LET l == Field(j, "languages", cur.Languages,
                        DecLanguageSlice(j.o["languages"], cur.Languages))
         IN [val |-> [Languages |-> l.val], err |-> l.err]
    ELSE IF j.t = "null" THEN [val |-> cur, err |-> NoErr]
    ELSE [val |-> cur, err |-> TypeErr]

\* the values handed to exec as in: &Position{} and &Languages{[]Language{}}
InPosition == [type |-> "*Position", v |-> ZeroPosition]
InLanguages == [type |-> "*Languages", v |-> [Languages |-> Slice(<<>>)]]

\* json.NewDecoder(body).Decode(in): what in points to afterwards, and the error
Decode(body, in) ==
    IF body.t = "empty" THEN [val |-> in, err |-> EOFErr]
    ELSE IF body.t = "invalid" THEN [val |-> in, err |-> SyntaxErr]
    ELSE LET r == IF in.type = "*Position" THEN DecPosition(body, in.v)
                  ELSE DecLanguages(body, in.v)
         IN [val |-> [type |-> in.type, v |-> r.val], err |-> r.err]

(***************************************************************************)
(* The inputs the model draws from.                                        *)
(***************************************************************************)
Procs == 1..NumProcs

LangSet == {<<>>, <<"d", "e">>}
OptionsSet == {Options(l, c) : l \in LangSet, c \in BOOLEAN}

\* the API keys handed to New in SpecNew: every string up to MaxKeyLen
KeyAlphabet == {" ", "\t", "k"}
AllKeys == UNION {[1..n -> KeyAlphabet] : n \in 0..MaxKeyLen}

\* the API keys of the clients the calls are made on
CallKeys == {<<"k">>, <<"k", " ", "y">>}

WordsSet ==
    {<< <<"a">>, <<"b">>, <<"c">> >>,
     << <<"u", "p">>, <<>>, <<"t", " ", "o">> >>}

\* LatLng values in halves of a degree: (1.5, -0.5) and (0, 12)
LatLngSet == {<<3, -1>>, <<0, 24>>}

JLanguage(code, name) == JObj([code |-> JStr(code), name_display |-> JStr(name)])

JPositionBody ==
    [type |-> JStr("3 words"),
     words |-> JArr(<<JStr("prom"), JStr("cape"), JStr("pump")>>),
     position |-> JArr(<<JNum(3), JNum(-1)>>),
     language |-> JStr("en")]

JCorners == JArr(<<JArr(<<JNum(2), JNum(-2)>>), JArr(<<JNum(4), JNum(0)>>)>>)

Bodies ==
    {JEmpty, JInvalid, JNull,
     JObj([error |-> JStr("bad key")]),
     JObj([languages |-> JNull]),
     JObj([languages |-> JArr(<<>>)]),
     JObj([languages |-> JArr(<<JLanguage("en", "English"), JLanguage("de", "Deutsch")>>)]),
     JObj([languages |-> JStr("none")]),
     JObj(JPositionBody),
     JObj([corners |-> JCorners] @@ JPositionBody),
     JObj([type |-> JStr("3 words"), words |-> JStr("prom.cape.pump")])}

\* what client.Do gives: a transport error, or a response with a body
Response(err, body) == [err |-> err, body |-> body]
Responses ==
    {Response(TransportErr, JEmpty)} \cup {Response(NoErr, b) : b \in Bodies}
ConcResponses ==
    {Response(TransportErr, JEmpty),
     Response(NoErr, JObj([languages |-> JArr(<<>>)]))}

(***************************************************************************)
(* The public operations and exec, step by step.  A call builds its        *)
(* Values, enters exec (options, request, client.Do), and ends when        *)
(* client.Do has answered.                                                 *)
(***************************************************************************)
NoReturn == [kind |-> "none"]
Panic(why) == [kind |-> "panic", why |-> why]
Return(val, err) == [kind |-> "return", val |-> val, err |-> err]

\* the url and the in argument each operation hands to exec
urlOf(o) ==
    IF o = "Words" THEN endpoint \o "/w3w"
    ELSE IF o = "Position" THEN endpoint \o "/position"
    ELSE endpoint \o "/get-languages"

inOf(o) == IF o \in {"Words", "Position"} THEN InPosition ELSE InLanguages

\* the first lines of Words and LangsW3W: key and string
wordsValues(client, ws) ==
    Set(Set(EmptyValues, kKey, client.apikey), kString, Join(ws, <<".">>))

\* the first lines of Position and LangsPos: key and position
positionValues(client, p) ==
    Set(Set(EmptyValues, kKey, client.apikey), kPosition, FormatLatLng(p))

\* a public operation is entered: its Values are built, exec is next
Enter(p, o, ws, pos, op_, v) ==
    /\ pc[p] = "idle"
    /\ w # <<>>
    /\ pc' = [pc EXCEPT ![p] = "exec"]
    /\ op' = [op EXCEPT ![p] = o]
    /\ words' = [words EXCEPT ![p] = ws]
    /\ ll' = [ll EXCEPT ![p] = pos]
    /\ opts' = [opts EXCEPT ![p] = op_]
    /\ vals' = [vals EXCEPT ![p] = v]
    /\ UNCHANGED <<defs, heap, newVars, reqs, decodes, resp, ret>>

\* func (w *W3W) Words(words What3Words, opts *Options)
Words(p, ws, o) ==
    Enter(p, "Words", ws, <<0, 0>>, o, wordsValues(w[1], ws))

\* func (w *W3W) Position(ll LatLng, opts *Options)
Position(p, pos, o) ==
    Enter(p, "Position", <<<<>>, <<>>, <<>>>>, pos, o, positionValues(w[1], pos))

\* func (w *W3W) LangsW3W(words What3Words, opts *Options)
LangsW3W(p, ws, o) ==
    Enter(p, "LangsW3W", ws, <<0, 0>>, o, wordsValues(w[1], ws))

\* func (w *W3W) LangsPos(ll LatLng, opts *Options)
LangsPos(p, pos, o) ==
    Enter(p, "LangsPos", <<<<>>, <<>>, <<>>>>, pos, o, positionValues(w[1], pos))

\* a slip exec could make: the default language is written into the Options
\* value it reads ("if o.Lang is empty, o.Lang = en") before it is sent
execSendNormalize(p) ==
    /\ pc[p] = "exec"
    /\ LET ptr == IF opts[p] # "nil" THEN opts[p] ELSE w[1].defaults
           o == Deref(ptr, heap, defs)
           n == Options(IF o.Lang = <<>> THEN <<"e", "n">> ELSE o.Lang, o.Corners)
           v == add(n, vals[p])
       IN /\ vals' = [vals EXCEPT ![p] = v]
          /\ reqs' = [reqs EXCEPT ![p] = Append(@, NewRequest(urlOf(op[p]), v))]
          /\ heap' = IF ptr = "&defs" THEN heap ELSE [heap EXCEPT ![ptr] = n]
          /\ defs' = IF ptr = "&defs" THEN n ELSE defs
    /\ pc' = [pc EXCEPT ![p] = "do"]
    /\ UNCHANGED <<newVars, op, words, ll, opts, decodes, resp, ret>>

\* exec, lines 196-205: the options are added to the Values, the request is
\* built and handed to client.Do
execSend(p) ==
    /\ pc[p] = "exec"
    /\ LET v == execOptions(w[1], opts[p], vals[p], heap, defs)
       IN /\ vals' = [vals EXCEPT ![p] = v]
          /\ reqs' = [reqs EXCEPT ![p] = Append(@, NewRequest(urlOf(op[p]), v))]
    /\ pc' = [pc EXCEPT ![p] = "do"]
    /\ UNCHANGED <<defs, heap, newVars, op, words, ll, opts, decodes, resp, ret>>

\* exec, lines 207-217: what exec returns for an answer of client.Do, and
\* whether Decode ran
execResult(r, in) ==
    IF r.err # NoErr
    THEN [val |-> <<>>, err |-> r.err, decoded |-> 0]
    ELSE LET d == Decode(r.body, in)
         IN IF d.err # NoErr
            THEN [val |-> <<>>, err |-> d.err, decoded |-> 1]
            ELSE [val |-> <<d.val>>, err |-> NoErr, decoded |-> 1]

\* return pos.(*Position), err and return langs.(*Languages), err: the type
\* assertion on the interface value exec returned panics when it is nil
assertReturn(x) ==
    IF x.val = <<>>
    THEN Panic("interface conversion: interface is nil")
    ELSE Return(<<x.val[1].v>>, x.err)

\* a slip exec could make: a failed client.Do is tried once more
execReceiveRetry(p, r) ==
    /\ pc[p] = "do"
    /\ LET x == execResult(r, inOf(op[p]))
       IN /\ decodes' = [decodes EXCEPT ![p] = @ + x.decoded]
          /\ ret' = [ret EXCEPT ![p] = assertReturn(x)]
    /\ resp' = [resp EXCEPT ![p] = r]
    /\ reqs' = [reqs EXCEPT ![p] =
                   IF r.err # NoErr THEN Append(@, @[Len(@)]) ELSE @]
    /\ pc' = [pc EXCEPT ![p] = "done"]
    /\ UNCHANGED <<defs, heap, newVars, op, words, ll, opts, vals>>

\* client.Do answers: exec returns and the public operation returns
execReceive(p, r) ==
    /\ pc[p] = "do"
    /\ LET x == execResult(r, inOf(op[p]))
       IN /\ decodes' = [decodes EXCEPT ![p] = @ + x.decoded]
          /\ ret' = [ret EXCEPT ![p] = assertReturn(x)]
    /\ resp' = [resp EXCEPT ![p] = r]
    /\ pc' = [pc EXCEPT ![p] = "done"]
    /\ UNCHANGED <<defs, heap, newVars, op, words, ll, opts, vals, reqs>>

\* New is called: its results replace the client and the error
NewClient(k, d) ==
    /\ w' = New(k, d).w
    /\ newErr' = New(k, d).err
    /\ newKey' = k
    /\ newDefaults' = d
    /\ UNCHANGED <<defs, heap, callVars>>

(***************************************************************************)
(* Specifications.                                                         *)
(***************************************************************************)
InitCalls ==
    /\ pc = [p \in Procs |-> "idle"]
    /\ op = [p \in Procs |-> "none"]
    /\ words = [p \in Procs |-> <<<<>>, <<>>, <<>>>>]
    /\ ll = [p \in Procs |-> <<0, 0>>]
    /\ opts = [p \in Procs |-> "nil"]
    /\ vals = [p \in Procs |-> EmptyValues]
    /\ reqs = [p \in Procs |-> <<>>]
    /\ decodes = [p \in Procs |-> 0]
    /\ resp = [p \in Procs |-> Response("no answer yet", JEmpty)]
    /\ ret = [p \in Procs |-> NoReturn]

\* the state once New(k, d) has returned, the caller owning the Options h
InitWith(h, k, d) ==
    /\ defs = defsInit
    /\ heap = h
    /\ w = New(k, d).w
    /\ newErr = New(k, d).err
    /\ newKey = k
    /\ newDefaults = d
    /\ InitCalls

\* one caller, one client built by New over every choice of defaults
Init ==
    \E h \in [{"o1", "o2"} -> OptionsSet], k \in CallKeys, d \in {"nil", "o1", "o2"} :
        InitWith(h, k, d)

Next ==
    \/ \E ws \in WordsSet, o \in {"nil", "o1", "o2"} : Words(1, ws, o)
    \/ \E pos \in LatLngSet, o \in {"nil", "o1", "o2"} : Position(1, pos, o)
    \/ \E ws \in WordsSet, o \in {"nil", "o1", "o2"} : LangsW3W(1, ws, o)
    \/ \E pos \in LatLngSet, o \in {"nil", "o1", "o2"} : LangsPos(1, pos, o)
    \/ execSend(1)
    \/ \E r \in Responses : execReceive(1, r)

Spec == Init /\ [][Next]_vars

\* several callers share one client and one Options value
InitConc ==
    \E h \in [{"o1"} -> {Options(<<>>, FALSE), Options(<<"d", "e">>, TRUE)}],
       d \in {"nil", "o1"} :
        InitWith(h, <<"k">>, d)

NextConc ==
    \E p \in Procs :
        \/ \E o \in {"nil", "o1"} : Words(p, << <<"a">>, <<"b">>, <<"c">> >>, o)
        \/ \E o \in {"nil", "o1"} : Position(p, <<3, -1>>, o)
        \/ \E o \in {"nil", "o1"} : LangsW3W(p, << <<"a">>, <<"b">>, <<"c">> >>, o)
        \/ \E o \in {"nil", "o1"} : LangsPos(p, <<3, -1>>, o)
        \/ execSend(p)
        \/ \E r \in ConcResponses : execReceive(p, r)

SpecConc == InitConc /\ [][NextConc]_vars

\* New alone, over every key up to MaxKeyLen
InitNew ==
    /\ defs = defsInit
    /\ heap \in [{"o1", "o2"} -> {Options(<<>>, FALSE), Options(<<"d", "e">>, TRUE)}]
    /\ w = <<>>
    /\ newErr = "not called"
    /\ newKey = <<>>
    /\ newDefaults = "nil"
    /\ InitCalls

NextNew ==
    \E k \in AllKeys, d \in {"nil", "o1", "o2"} : NewClient(k, d)

SpecNew == InitNew /\ [][NextNew]_vars

(***************************************************************************)
(* How the service reads a request: the raw query split at "&" and "=",    *)
(* each part unescaped.                                                    *)
(***************************************************************************)
IndexOf(s, c) ==
    IF \E i \in 1..Len(s) : s[i] = c
    THEN CHOOSE i \in 1..Len(s) : s[i] = c /\ \A j \in 1..(i - 1) : s[j] # c
    ELSE 0

RECURSIVE Split(_, _)
Split(s, c) ==
    LET i == IndexOf(s, c)
    IN IF i = 0 THEN <<s>>
       ELSE <<SubSeq(s, 1, i - 1)>> \o Split(SubSeq(s, i + 1, Len(s)), c)

HexChar(h1, h2) ==
    Ascii[CHOOSE i \in 1..Len(Ascii) : Ascii[i][2] = h1 /\ Ascii[i][3] = h2][1]

RECURSIVE Unescape(_)
Unescape(s) ==
    IF s = <<>> THEN <<>>
    ELSE IF Head(s) = "+" THEN <<" ">> \o Unescape(Tail(s))
    ELSE IF Head(s) = "%" /\ Len(s) >= 3
         THEN <<HexChar(s[2], s[3])>> \o Unescape(SubSeq(s, 4, Len(s)))
         ELSE <<Head(s)>> \o Unescape(Tail(s))

\* the pairs <<key, value>> of a raw query, in the order they are written
ParseQuery(raw) ==
    IF raw = <<>> THEN <<>>
    ELSE LET parts == Split(raw, "&")
         IN [i \in 1..Len(parts) |->
               LET j == IndexOf(parts[i], "=")
               IN IF j = 0 THEN <<Unescape(parts[i]), <<>>>>
                  ELSE <<Unescape(SubSeq(parts[i], 1, j - 1)),
                         Unescape(SubSeq(parts[i], j + 1, Len(parts[i])))>>]

\* the values a request carries for one query parameter, in order
QueryValues(req, key) ==
    LET q == ParseQuery(req.RawQuery)
        hits == SelectSeq(q, LAMBDA kv : kv[1] = key)
    IN [i \in 1..Len(hits) |-> hits[i][2]]

\* the names of the query parameters a request carries
QueryKeys(req) ==
    LET q == ParseQuery(req.RawQuery) IN {q[i][1] : i \in 1..Len(q)}

\* the callers whose request has been handed to client.Do
Sent(p) == pc[p] \in {"do", "done"} /\ Len(reqs[p]) >= 1

\* the callers whose call has ended
Done(p) == pc[p] = "done"

\* the Options value a call's arguments select: opts, or the client defaults
Resolved(p) ==
    IF opts[p] # "nil" THEN heap[opts[p]]
    ELSE IF w[1].defaults = "&defs" THEN defs ELSE heap[w[1].defaults]

(***************************************************************************)
(* The claims.                                                             *)
(***************************************************************************)
sTrue == <<"t", "r", "u", "e">>
sEn == <<"e", "n">>

\* C1: when client.Do fails, the operation returns that error to its caller
\* as an error value, the request is not issued a second time, and JSON
\* decoding is never invoked for that call.
C1_TransportErrorReturned ==
    \A p \in Procs :
        (Done(p) /\ resp[p].err = TransportErr) =>
            /\ ret[p].kind = "return"
            /\ ret[p].err = TransportErr
            /\ Len(reqs[p]) = 1
            /\ decodes[p] = 0

\* C1, what the code does instead: after a transport failure every operation
\* ends in the panic of its type assertion, with one request and no decoding.
C1_TransportErrorPanics ==
    \A p \in Procs :
        (Done(p) /\ resp[p].err = TransportErr) =>
            ret[p].kind = "panic" /\ Len(reqs[p]) = 1 /\ decodes[p] = 0

\* C2: when the transport succeeds but the body does not decode into the
\* expected shape, the operation returns a decode error to its caller as an
\* error value and returns no result.
C2_DecodeErrorReturned ==
    \A p \in Procs :
        (/\ Done(p)
         /\ resp[p].err = NoErr
         /\ Decode(resp[p].body, inOf(op[p])).err # NoErr) =>
            /\ ret[p].kind = "return"
            /\ ret[p].err \in {SyntaxErr, TypeErr, EOFErr}
            /\ ret[p].val = <<>>

\* the API key is empty or consists only of white space
Blank(key) == \A i \in 1..Len(key) : key[i] \in {" ", "\t", "\n", "\r"}

\* C3: New fails with ErrNoAPIKey and returns no client exactly when the key
\* is empty or only white space; for every other key it succeeds and returns
\* a client holding that key; so no client has a blank key.
C3_NewRefusesBlankKeys ==
    /\ newErr # "not called" =>
          IF Blank(newKey)
          THEN newErr = ErrNoAPIKey /\ w = <<>>
          ELSE newErr = NoErr /\ w # <<>> /\ w[1].apikey = newKey
    /\ w # <<>> => ~ Blank(w[1].apikey)

\* C3 witness: New has refused a key made of white space only
C3_Witness ==
    /\ newErr = ErrNoAPIKey
    /\ Len(newKey) >= 1
    /\ Blank(newKey)
    /\ w = <<>>

\* the lang and corners parameters an Options value alone gives rise to
ParamsOf(o) ==
    [lang |-> <<IF o.Lang = <<>> THEN sEn ELSE o.Lang>>,
     corners |-> IF o.Corners THEN <<sTrue>> ELSE <<>>]

\* the lang and corners parameters a request carries
ParamsIn(req) ==
    [lang |-> QueryValues(req, kLang), corners |-> QueryValues(req, kCorners)]

\* C4: in all four operations, when opts is nil the lang and corners
\* parameters come from the client's defaults only; when opts is not nil
\* (even the zero value) they come from opts only, with no field-level merge.
C4_OptionResolution ==
    \A p \in Procs :
        Sent(p) =>
            IF opts[p] = "nil"
            THEN ParamsIn(reqs[p][1]) = ParamsOf(Deref(w[1].defaults, heap, defs))
            ELSE ParamsIn(reqs[p][1]) = ParamsOf(heap[opts[p]])

\* C4 witness: a request was sent with the zero Options as opts on a client
\* whose defaults are {"de", true}
C4_Witness ==
    \E p \in Procs :
        /\ Sent(p)
        /\ opts[p] # "nil"
        /\ heap[opts[p]] = Options(<<>>, FALSE)
        /\ w[1].defaults \notin {"&defs", opts[p]}
        /\ heap[w[1].defaults] = Options(<<"d", "e">>, TRUE)

\* C5: when New is called with nil defaults, every operation called with nil
\* opts sends lang=en and corners=true.
C5_NilDefaultsSendCorners ==
    \A p \in Procs :
        (Sent(p) /\ newDefaults = "nil" /\ opts[p] = "nil") =>
            /\ QueryValues(reqs[p][1], kLang) = <<sEn>>
            /\ QueryValues(reqs[p][1], kCorners) = <<sTrue>>

\* C5, what the code does instead: with nil defaults and nil opts the request
\* carries lang=en and no corners parameter.
C5_NilDefaultsSendNoCorners ==
    \A p \in Procs :
        (Sent(p) /\ newDefaults = "nil" /\ opts[p] = "nil") =>
            /\ QueryValues(reqs[p][1], kLang) = <<sEn>>
            /\ QueryValues(reqs[p][1], kCorners) = <<>>

\* C6: when the resolved options have Corners false the query of the request
\* has no corners parameter at all; when Corners is true it has exactly one,
\* with the value "true".
C6_Corners ==
    \A p \in Procs :
        Sent(p) =>
            IF Resolved(p).Corners
            THEN QueryValues(reqs[p][1], kCorners) = <<sTrue>>
            ELSE /\ kCorners \notin QueryKeys(reqs[p][1])
                 /\ QueryValues(reqs[p][1], kCorners) = <<>>

\* C6 witness: a request was sent for options whose Corners is false
C6_Witness == \E p \in Procs : Sent(p) /\ ~ Resolved(p).Corners

\* C7: every request carries exactly one lang parameter: the resolved Lang
\* when it is not empty, and "en" when it is empty.
C7_Lang ==
    \A p \in Procs :
        Sent(p) =>
            LET l == QueryValues(reqs[p][1], kLang)
            IN /\ Len(l) = 1
               /\ Resolved(p).Lang # <<>> => l[1] = Resolved(p).Lang
               /\ Resolved(p).Lang = <<>> => l[1] = sEn

\* C7 witness: a request was sent for client defaults whose Lang is empty
C7_Witness ==
    \E p \in Procs : Sent(p) /\ opts[p] = "nil" /\ Resolved(p).Lang = <<>>

\* C8: whenever LangsW3W or LangsPos returns without error, the Languages
\* sequence of the result is not nil.
C8_LanguagesNeverNil ==
    \A p \in Procs :
        (/\ Done(p)
         /\ op[p] \in {"LangsW3W", "LangsPos"}
         /\ ret[p].kind = "return"
         /\ ret[p].err = NoErr) =>
            ret[p].val # <<>> /\ ~ ret[p].val[1].Languages.isNil

\* the request a call would issue if it ran alone with the same arguments
SoloRequest(p) ==
    LET v == IF op[p] \in {"Words", "LangsW3W"}
             THEN wordsValues(w[1], words[p])
             ELSE positionValues(w[1], ll[p])
    IN NewRequest(urlOf(op[p]), execOptions(w[1], opts[p], v, heap, defs))

\* C9: under any interleaving of concurrent calls on one client, no call
\* changes the API key, the default options, the package defaults or a
\* caller's Options value; so each call issues the request it would issue
\* if it ran alone.
C9_CallsShareNothingMutable ==
    /\ [][defs' = defs /\ heap' = heap /\ w' = w]_vars
    /\ [](\A p \in Procs : Sent(p) => reqs[p] = <<SoloRequest(p)>>)

\* C9 witness: two calls in flight at once read the same Options value, one
\* as its opts and the other as the client's defaults
C9_Witness ==
    \E p, q \in Procs :
        /\ p # q
        /\ pc[p] = "do" /\ pc[q] = "do"
        /\ opts[p] = "o1"
        /\ opts[q] = "nil" /\ w[1].defaults = "o1"
        /\ heap["o1"].Lang = <<>>

\* the three words of a call joined by "."
Dotted(ws) == ws[1] \o <<".">> \o ws[2] \o <<".">> \o ws[3]

\* C10: every call issues exactly one HTTP GET whatever the outcome: Words
\* to /w3w with key and string, Position to /position with key and
\* position, LangsW3W and LangsPos to /get-languages with key and string or
\* position; key is the client's API key, string the words joined by ".",
\* and the request carries Accept: application/json.
C10_OneRequest ==
    \A p \in Procs :
        /\ pc[p] \in {"idle", "exec"} => reqs[p] = <<>>
        /\ pc[p] \in {"do", "done"} =>
              /\ Len(reqs[p]) = 1
              /\ LET r == reqs[p][1]
                 IN /\ r.Method = "GET"
                    /\ r.Header = [Accept |-> <<"application/json">>]
                    /\ QueryValues(r, kKey) = <<w[1].apikey>>
                    /\ op[p] = "Words" =>
                          r.URL = "https://api.what3words.com/w3w"
                    /\ op[p] = "Position" =>
                          r.URL = "https://api.what3words.com/position"
                    /\ op[p] \in {"LangsW3W", "LangsPos"} =>
                          r.URL = "https://api.what3words.com/get-languages"
                    /\ op[p] \in {"Words", "LangsW3W"} =>
                          /\ QueryValues(r, kString) = <<Dotted(words[p])>>
                          /\ kPosition \notin QueryKeys(r)
                    /\ op[p] \in {"Position", "LangsPos"} =>
                          /\ Len(QueryValues(r, kPosition)) = 1
                          /\ kString \notin QueryKeys(r)

\* C10 witness: a call has ended in a transport failure with one request
C10_Witness ==
    \E p \in Procs :
        Done(p) /\ resp[p].err = TransportErr /\ Len(reqs[p]) = 1

====
